---- MODULE Spec2Model ----
(***************************************************************************)
(* A model of pypeline.atomiccmd: the AtomicCmd descriptor (run, ready,    *)
(* join, terminate, commit, stdout), the process-wide killlist _PROCS and  *)
(* its SIGTERM handler, together with the child processes and the files    *)
(* they act on.                                                            *)
(*                                                                         *)
(* Paths are sequences of components (<<"dest","a">> is /dest/a), slot     *)
(* keys are sequences of their "_"-separated parts (<<"TEMP","OUT","LOG">> *)
(* is TEMP_OUT_LOG), and a file's content is the pid of the run that       *)
(* wrote it (0: no such file).                                             *)
(***************************************************************************)
EXTENDS Integers, Sequences, FiniteSets, TLC

\* Bound on the number of children spawned in one behaviour.
MaxProcs == 2

SIGTERM == 15

Cmds == {1, 2}
Pids == 1..MaxProcs

(***************************************************************************)
(* Slot values: a string (path), the PIPE sentinel, another descriptor, or *)
(* None.                                                                   *)
(***************************************************************************)
Str(p) == [t |-> "str", path |-> p, cmd |-> 0]
PIPE == [t |-> "pipe", path |-> <<>>, cmd |-> 0]
CmdRef(c) == [t |-> "cmd", path |-> <<>>, cmd |-> c]
NoneV == [t |-> "none", path |-> <<>>, cmd |-> 0]

IsString(v) == v.t = "str"

\* bool(value) as Python computes it for a slot value.
Truthy(v) ==
    CASE v.t = "none" -> FALSE
      [] v.t = "str" -> v.path # <<>>
      [] OTHER -> TRUE

\* dict.get(key, default)
Get(d, k, default) == IF k \in DOMAIN d THEN d[k] ELSE default

\* key.startswith(prefix), both split at "_"
StartsWith(key, prefix) ==
    /\ Len(key) >= Len(prefix)
    /\ \A i \in 1..Len(prefix) : key[i] = prefix[i]

Basename(p) == IF p = <<>> THEN <<>> ELSE <<p[Len(p)]>>
PathJoin(root, p) == root \o p

PipeIn == <<"IN", "STDIN">>
PipeOut == <<"OUT", "STDOUT">>
PipeErr == <<"OUT", "STDERR">>
Pipes == {PipeIn, PipeOut, PipeErr}

(***************************************************************************)
(* The two descriptors of the model: a producer whose stdout is a pipe and *)
(* a consumer that reads it.                                               *)
(***************************************************************************)
Command(c) == IF c = 1 THEN << <<"bin", "sh">> >> ELSE << <<"usr", "bin", "wc">> >>

Kwargs(c) ==
    IF c = 1
    THEN (<<"OUT", "STDOUT">> :> PIPE)
         @@ (<<"OUT", "FILE">> :> Str(<<"dest", "a">>))
         @@ (<<"OUT", "STDERR">> :> Str(<<"dest", "err">>))
    ELSE (<<"IN", "STDIN">> :> CmdRef(1))
         @@ (<<"OUT", "STDOUT">> :> Str(<<"dest", "count">>))
         @@ (<<"TEMP", "OUT", "LOG">> :> Str(<<"log">>))
         @@ (<<"TEMP", "IN", "CFG">> :> Str(<<"cfg">>))

\* The name of an auto-filled stdout/stderr file.
PipeFilename(executable, proc_id, pipe) ==
    <<"pipe_" \o executable \o "_" \o ToString(proc_id) \o "." \o pipe>>

Lower(pipe) == IF pipe = "STDOUT" THEN "stdout" ELSE "stderr"

\* _process_arguments: the slot map with null values dropped and the
\* missing output streams filled in.
ProcessArguments(proc_id, command, kwargs) ==
    LET files == [k \in {k \in DOMAIN kwargs : kwargs[k].t # "none"} |-> kwargs[k]]
        executable == Basename(command[1])[1]
        missing == {pipe \in {"STDOUT", "STDERR"} :
                      ~(Truthy(Get(kwargs, <<"OUT", pipe>>, NoneV))
                        \/ Truthy(Get(kwargs, <<"TEMP", "OUT", pipe>>, NoneV)))}
        auto == [k \in {<<"TEMP", "OUT", pipe>> : pipe \in missing} |->
                   Str(PipeFilename(executable, proc_id, Lower(k[3])))]
    IN  auto @@ files

Dirname(p) == IF p = <<>> THEN <<>> ELSE SubSeq(p, 1, Len(p) - 1)

\* The keywords give both forms of a standard stream a value other than None.
ValidatePipesNotNone(kwargs) ==
    \E pipe \in Pipes :
       /\ Get(kwargs, pipe, NoneV) # NoneV
       /\ Get(kwargs, <<"TEMP">> \o pipe, NoneV) # NoneV

\* _validate_pipes: whether it raises CmdError
ValidatePipes(kwargs) ==
    \E pipe \in Pipes :
       /\ Truthy(Get(kwargs, pipe, NoneV))
       /\ Truthy(Get(kwargs, <<"TEMP">> \o pipe, NoneV))

\* _validate_argument for a key with a known prefix and a name: the
\* exception it raises, "skip" for a None value, "" when the slot is kept.
ValidateArgument(key, value) ==
    IF value = NoneV THEN "skip"
    ELSE IF key \in {PipeOut, <<"TEMP">> \o PipeOut} /\ ~(IsString(value) \/ value = PIPE)
         THEN "TypeError"
    ELSE IF key \in {PipeIn, <<"TEMP">> \o PipeIn} /\ value.t \notin {"str", "cmd"}
         THEN "TypeError"
    ELSE IF key \notin {PipeOut, <<"TEMP">> \o PipeOut, PipeIn, <<"TEMP">> \o PipeIn}
            /\ ~IsString(value)
         THEN "TypeError"
    ELSE IF StartsWith(key, <<"TEMP">>) /\ IsString(value) /\ Dirname(value.path) # <<>>
         THEN "ValueError"
    ELSE ""

\* The keys of kwargs that name an output file with basename b.
OutputKeys(kwargs, b) ==
    {key \in DOMAIN kwargs :
        /\ StartsWith(key, <<"TEMP", "OUT">>) \/ StartsWith(key, <<"OUT">>)
        /\ IsString(kwargs[key])
        /\ Basename(kwargs[key].path) = b}

\* The exception _process_arguments raises for kwargs, "": none.
ProcessArgumentsError(kwargs) ==
    IF ValidatePipes(kwargs) THEN "CmdError"
    ELSE IF \E key \in DOMAIN kwargs : ValidateArgument(key, kwargs[key]) = "TypeError"
         THEN "TypeError"
    ELSE IF \E key \in DOMAIN kwargs : ValidateArgument(key, kwargs[key]) = "ValueError"
         THEN "ValueError"
    ELSE IF \E key \in DOMAIN kwargs :
               IsString(kwargs[key])
               /\ Cardinality(OutputKeys(kwargs, Basename(kwargs[key].path))) > 1
         THEN "ValueError"
    ELSE ""

\* A file-set index that files the TEMP_IN_ values under input.
BuildFilesMapTempAsInput(command, files) ==
    LET strings == {key \in DOMAIN files : IsString(files[key])}
        of(prefix) == {files[key].path : key \in {k \in strings : k[1] = prefix}}
        temp_in == {files[key].path :
                      key \in {k \in strings : StartsWith(k, <<"TEMP", "IN">>)}}
        temporary == {files[key].path :
                        key \in {k \in strings : StartsWith(k, <<"TEMP", "OUT">>)}}
    IN  [input |-> of("IN") \cup temp_in,
         output |-> of("OUT"),
         executable |-> {command[1]} \cup of("EXEC"),
         auxiliary |-> of("AUX"),
         temporary_fname |-> {Basename(f) : f \in temporary},
         output_fname |-> {Basename(f) : f \in of("OUT")}]

\* _build_files_map: the file sets of a descriptor (CHECK_ slots left out)
BuildFilesMap(command, files) ==
    LET strings == {key \in DOMAIN files : IsString(files[key])}
        of(prefix) ==
            {files[key].path :
                key \in {k \in strings : ~StartsWith(k, <<"TEMP">>) /\ k[1] = prefix}}
        temporary == {files[key].path :
                        key \in {k \in strings : StartsWith(k, <<"TEMP", "OUT">>)}}
    IN  [input |-> of("IN"),
         output |-> of("OUT"),
         executable |-> {command[1]} \cup of("EXEC"),
         auxiliary |-> of("AUX"),
         temporary_fname |-> {Basename(f) : f \in temporary},
         output_fname |-> {Basename(f) : f \in of("OUT")}]

\* _files of each descriptor, as the constructor leaves it
FilesOf == [c \in Cmds |-> ProcessArguments(c, Command(c), Kwargs(c))]
Files(c) == FilesOf[c]

\* _generate_filenames
GenerateFilenames(files, root) ==
    LET resolve(key) ==
            IF IsString(files[key])
               /\ (StartsWith(key, <<"TEMP">>) \/ StartsWith(key, <<"OUT">>))
            THEN Str(PathJoin(root, Basename(files[key].path)))
            ELSE files[key]
    IN  (<<"TEMP", "DIR">> :> Str(root)) @@ [key \in DOMAIN files |-> resolve(key)]

\* _build_files_map: the sets commit reads.
OutputFiles(c) ==
    {Files(c)[k].path : k \in {k \in DOMAIN Files(c) :
        IsString(Files(c)[k]) /\ ~StartsWith(k, <<"TEMP">>) /\ k[1] = "OUT"}}

ExpectedTempFiles(c) == {Basename(p) : p \in OutputFiles(c)}

(***************************************************************************)
(* The file system: the temp roots the caller may pass (two of them name   *)
(* the same directory) and the destinations of the descriptors.            *)
(***************************************************************************)
TempRoots == {<<"tmp", "T">>, <<"tmp", "link">>, <<"tmp", "U">>}

\* The temp root the descriptors are run in.
RunRoots == {<<"tmp", "T">>}

Realpath(p) ==
    IF Len(p) >= 2 /\ SubSeq(p, 1, 2) = <<"tmp", "link">>
    THEN <<"tmp", "T">> \o SubSeq(p, 3, Len(p))
    ELSE p

\* A comparison of the two paths as text.
SamefileTextual(a, b) == a = b

\* os.path.samefile
Samefile(a, b) == Realpath(a) = Realpath(b)

TempDirs == {Realpath(t) : t \in RunRoots}

OutKeys(c) == {k \in DOMAIN Files(c) : IsString(Files(c)[k]) /\ StartsWith(k, <<"OUT">>)}
TempOutKeys(c) ==
    {k \in DOMAIN Files(c) : IsString(Files(c)[k]) /\ StartsWith(k, <<"TEMP", "OUT">>)}

TempNames(c) == {Basename(Files(c)[k].path) : k \in OutKeys(c) \cup TempOutKeys(c)}

TempInKeys(c) ==
    {k \in DOMAIN Files(c) : IsString(Files(c)[k]) /\ StartsWith(k, <<"TEMP", "IN">>)}

TempInNames(c) == {Basename(Files(c)[k].path) : k \in TempInKeys(c)}

\* A file a child leaves in the temp root without any slot naming it.
Undeclared == <<"core">>

FilePaths ==
    {PathJoin(d, b) : d \in TempDirs, b \in UNION {TempNames(c) : c \in Cmds}}
    \cup {PathJoin(d, b) : d \in TempDirs, b \in UNION {TempInNames(c) : c \in Cmds}}
    \cup {PathJoin(d, Undeclared) : d \in TempDirs}
    \cup UNION {OutputFiles(c) : c \in Cmds}

\* os.listdir
Listdir(files, dir) ==
    {Basename(p) : p \in {q \in DOMAIN files :
        files[q] # 0 /\ Len(q) = Len(Realpath(dir)) + 1
        /\ SubSeq(q, 1, Len(q) - 1) = Realpath(dir)}}

VARIABLES
    proc,     \* _proc of each descriptor: the pid of its Popen object, 0: None
    temp,     \* _temp of each descriptor: a temp root, <<>>: None
    handles,  \* the keys of _handles of each descriptor
    PROCS,    \* the killlist: the pids whose weak reference is in _PROCS
    pipes,    \* the pids whose stdout pipe is open for reading in the host
    handler,  \* whether _cleanup_children is the installed SIGTERM handler
    host,     \* the host process: "up", "in run" (between the spawn and the
              \* insertion into the killlist), or how it ended
    child,    \* the children spawned so far
    fs,       \* the content of every file
    ctor,     \* a call of the constructor: its keywords and what it built
    samples,  \* a call of _process_samples: the BAMs of a sample, the outcome
    last      \* the last call and what it returned or raised

vars ==
    <<proc, temp, handles, PROCS, pipes, handler, host, child, fs, ctor, samples, last>>

NoChild ==
    [st |-> "none", rc |-> {}, owner |-> 0, root |-> <<>>, sig |-> {},
     desc |-> FALSE, stdin |-> "", src |-> 0, blocked |-> FALSE]

\* A call: its operation, descriptor and temp root, the exception it raised
\* ("": none) with its message and the file names the message lists, the
\* list it returned (an exit code is {rc}, None is {}) or its truth value.
Call(op, c, t) ==
    [op |-> op, cmd |-> c, temp |-> t, exc |-> "", msg |-> "", names |-> {},
     ret |-> <<>>, flag |-> FALSE]

Raise(call, exc, msg) == [call EXCEPT !.exc = exc, !.msg = msg]

\* No call of the constructor is looked at.
NoCtor ==
    [st |-> "none", id |-> 0, kwargs |-> <<>>, files |-> <<>>, sets |-> <<>>, exc |-> ""]

\* The descriptors of the model after their construction.
Constructed ==
    /\ proc = [c \in Cmds |-> 0]
    /\ temp = [c \in Cmds |-> <<>>]
    /\ handles = [c \in Cmds |-> {}]
    /\ PROCS = {}
    /\ pipes = {}
    /\ handler = FALSE
    /\ host = [st |-> "up", status |-> {}]
    /\ child = [p \in Pids |-> NoChild]
    /\ fs = [p \in FilePaths |-> 0]
    /\ last = Call("init", 0, <<>>)

\* No call of _process_samples is looked at.
NoSamples == [st |-> "none", bams |-> <<>>, files |-> <<>>, err |-> ""]

Init == Constructed /\ ctor = NoCtor /\ samples = NoSamples

(***************************************************************************)
(* The Popen object of a descriptor and the weak references of _PROCS.     *)
(***************************************************************************)
\* Popen.poll(): reaps the child when it has exited.
Poll(ch, p) == [ch EXCEPT ![p].st = IF @ = "zombie" THEN "reaped" ELSE @]

\* weakref.ref(proc, _PROCS.remove): a reference leaves the killlist when no
\* descriptor holds its Popen object any more.
Collect(procs, held) == {p \in procs : \E c \in Cmds : held[c] = p}

\* The stdout pipe of a Popen object is closed with the object: it stays open
\* while a descriptor holds the object.
ClosePipes(open, held) == {p \in open : \E c \in Cmds : held[c] = p}

\* An insertion that installs the handler only next to other entries.
AddToKilllistLate(procs, installed, p) ==
    <<procs \cup {p}, IF procs # {} THEN TRUE ELSE installed>>

\* _add_to_killlist: <<the killlist, whether the handler is installed>>
AddToKilllist(procs, installed, p) ==
    <<procs \cup {p}, IF procs = {} THEN TRUE ELSE installed>>

\* A stdout property that yields the pipe only while the child is running.
StdoutWhileRunning(c, held) ==
    LET stdout == Get(Files(c), PipeOut, Get(Files(c), <<"TEMP">> \o PipeOut, NoneV))
    IN  IF held[c] # 0 /\ stdout = PIPE /\ child[held[c]].st = "running"
        THEN held[c] ELSE 0

\* AtomicCmd.stdout: the pid whose stdout pipe is returned, 0: None
Stdout(c, held) ==
    LET stdout == Get(Files(c), PipeOut, Get(Files(c), <<"TEMP">> \o PipeOut, NoneV))
    IN  IF held[c] # 0 /\ stdout = PIPE THEN held[c] ELSE 0

\* _open_pipe: the value of the slot the stream is taken from
PipeTarget(kwords, pipe) == Get(kwords, pipe, Get(kwords, <<"TEMP">> \o pipe, NoneV))

PipeOrder(pipe) == IF pipe = PipeIn THEN 1 ELSE IF pipe = PipeOut THEN 2 ELSE 3

\* _open_pipe: a handle is recorded in _handles when the stream is a file the
\* descriptor opens itself; PIPE and the stdout of a producer are passed on.
OwnsHandle(filename) == IsString(filename)

\* The pipes that closing the handles recorded under keys closes: the stdout
\* of the producer, were it recorded under IN_STDIN.
ClosedPipes(c, keys) ==
    IF PipeIn \in keys /\ PipeTarget(Files(c), PipeIn).t = "cmd"
    THEN {p \in pipes : child[p].owner = PipeTarget(Files(c), PipeIn).cmd}
    ELSE {}

FreePids == {p \in Pids : child[p].st = "none"}
NewPid == CHOOSE p \in FreePids : \A q \in FreePids : p <= q

\* What may go wrong in run: nothing (<<>>), the open of a stream's file, or
\* the spawn.
Spawn == <<"spawn">>
RunFailures(c, t) ==
    {<<>>, Spawn}
    \cup {pipe \in Pipes : IsString(PipeTarget(GenerateFilenames(Files(c), t), pipe))}

\* A run guard that looks at the process handle instead of the handles.
AlreadyRunningByProc(c) == proc[c] # 0 /\ handles[c] # {}

\* The guard of run: "if self._handles"
AlreadyRunning(c) == handles[c] # {}

\* AtomicCmd.run
Run(c, t, fail, d) ==
    LET call == Call("run", c, t)
        kwords == GenerateFilenames(Files(c), t)
        pid == NewPid
        opened == {pipe \in Pipes :
                     /\ OwnsHandle(PipeTarget(kwords, pipe))
                     /\ (fail \in Pipes => PipeOrder(pipe) < PipeOrder(fail))}
        written == {Realpath(PipeTarget(kwords, pipe).path) : pipe \in opened \ {PipeIn}}
        stdin == PipeTarget(kwords, PipeIn)
        src == IF stdin.t = "cmd" THEN Stdout(stdin.cmd, proc) ELSE 0
        held == [proc EXCEPT ![c] = pid]
        piped == IF Stdout(c, held) = pid THEN {pid} ELSE {}
        kl == AddToKilllist(Collect(PROCS, held), handler, pid)
    IN  /\ host.st = "up"
        /\ IF AlreadyRunning(c)
           THEN /\ last' = Raise(call, "CmdError", "already running")
                /\ UNCHANGED <<proc, temp, handles, PROCS, pipes, handler, host, child, fs, ctor, samples>>
           ELSE /\ FreePids # {}
                /\ temp' = [temp EXCEPT ![c] = t]
                /\ handles' = [handles EXCEPT ![c] = opened]
                /\ fs' = [f \in FilePaths |-> IF f \in written THEN pid ELSE fs[f]]
                /\ IF fail = <<>>
                   THEN /\ proc' = held
                        /\ child' = [child EXCEPT ![pid] =
                               [st |-> "running", rc |-> {}, owner |-> c, root |-> t,
                                sig |-> {}, desc |-> d,
                                stdin |-> IF src # 0 THEN "pipe"
                                          ELSE IF IsString(stdin) THEN "file" ELSE "host",
                                src |-> src, blocked |-> FALSE]]
                        /\ PROCS' = kl[1]
                        /\ pipes' = ClosePipes(pipes, held) \cup piped
                        /\ handler' = kl[2]
                        /\ last' = call
                   ELSE /\ d = FALSE
                        /\ last' = Raise(call, IF fail = Spawn THEN "OSError" ELSE "IOError",
                                         "launch failed")
                        /\ UNCHANGED <<proc, child, PROCS, pipes, handler>>
                /\ UNCHANGED <<host, ctor, samples>>

\* AtomicCmd.run up to the return of Popen (lines 131-151): the child is
\* spawned and held by the descriptor, the killlist is not yet touched.
RunSpawn(c, t) ==
    LET kwords == GenerateFilenames(Files(c), t)
        pid == NewPid
        opened == {pipe \in Pipes : OwnsHandle(PipeTarget(kwords, pipe))}
        written == {Realpath(PipeTarget(kwords, pipe).path) : pipe \in opened \ {PipeIn}}
        stdin == PipeTarget(kwords, PipeIn)
        src == IF stdin.t = "cmd" THEN Stdout(stdin.cmd, proc) ELSE 0
        held == [proc EXCEPT ![c] = pid]
        piped == IF Stdout(c, held) = pid THEN {pid} ELSE {}
    IN  /\ host.st = "up"
        /\ ~AlreadyRunning(c)
        /\ FreePids # {}
        /\ temp' = [temp EXCEPT ![c] = t]
        /\ handles' = [handles EXCEPT ![c] = opened]
        /\ fs' = [f \in FilePaths |-> IF f \in written THEN pid ELSE fs[f]]
        /\ proc' = held
        /\ child' = [child EXCEPT ![pid] =
               [st |-> "running", rc |-> {}, owner |-> c, root |-> t,
                sig |-> {}, desc |-> FALSE,
                stdin |-> IF src # 0 THEN "pipe"
                          ELSE IF IsString(stdin) THEN "file" ELSE "host",
                src |-> src, blocked |-> FALSE]]
        /\ PROCS' = Collect(PROCS, held)
        /\ pipes' = ClosePipes(pipes, held) \cup piped
        /\ host' = [host EXCEPT !.st = "in run"]
        /\ last' = Call("spawn", c, t)
        /\ UNCHANGED <<handler, ctor, samples>>

\* AtomicCmd.run from the return of Popen on: _add_to_killlist (line 154)
RunRegister ==
    LET c == last.cmd
        kl == AddToKilllist(PROCS, handler, proc[c])
    IN  /\ host.st = "in run"
        /\ last.op = "spawn"
        /\ PROCS' = kl[1]
        /\ handler' = kl[2]
        /\ host' = [host EXCEPT !.st = "up"]
        /\ last' = Call("run", c, last.temp)
        /\ UNCHANGED <<proc, temp, handles, pipes, child, fs, ctor, samples>>

\* AtomicCmd.ready
IsReady(c) == proc[c] # 0 /\ child[proc[c]].st # "running"

Ready(c) ==
    /\ host.st = "up"
    /\ child' = IF proc[c] # 0 THEN Poll(child, proc[c]) ELSE child
    /\ last' = [Call("ready", c, <<>>) EXCEPT !.flag = IsReady(c)]
    /\ UNCHANGED <<proc, temp, handles, PROCS, pipes, handler, host, fs, ctor, samples>>

\* AtomicCmd.join: Popen.wait() returns once the child has exited.
Join(c) ==
    /\ host.st = "up"
    /\ proc[c] # 0 => child[proc[c]].st # "running"
    /\ child' = IF proc[c] # 0 THEN Poll(child, proc[c]) ELSE child
    /\ handles' = [handles EXCEPT ![c] = {}]
    /\ pipes' = pipes \ ClosedPipes(c, handles[c])
    /\ last' = [Call("join", c, <<>>) EXCEPT
                  !.ret = IF proc[c] # 0 THEN <<child[proc[c]].rc>> ELSE << {} >>]
    /\ UNCHANGED <<proc, temp, PROCS, handler, host, fs, ctor, samples>>

\* AtomicCmd.join when Popen.wait() raises (the wait for a running child is
\* interrupted): the finally clause still closes the handles.
JoinInterrupted(c) ==
    /\ host.st = "up"
    /\ proc[c] # 0 /\ child[proc[c]].st = "running"
    /\ handles' = [handles EXCEPT ![c] = {}]
    /\ pipes' = pipes \ ClosedPipes(c, handles[c])
    /\ last' = Raise(Call("join", c, <<>>), "KeyboardInterrupt", "interrupted")
    /\ UNCHANGED <<proc, temp, PROCS, handler, host, child, fs, ctor, samples>>

\* The stdout property, read by the caller.
GetStdout(c) ==
    /\ host.st = "up"
    /\ last' = [Call("stdout", c, <<>>) EXCEPT !.ret = <<Stdout(c, proc)>>]
    /\ UNCHANGED <<proc, temp, handles, PROCS, pipes, handler, host, child, fs, ctor, samples>>

\* A terminate that signals the child and keeps holding it.
TerminateKeepingChild(c) ==
    /\ host.st = "up"
    /\ child' = IF proc[c] # 0 /\ child[proc[c]].st = "running"
                THEN [child EXCEPT ![proc[c]].sig = @ \cup {"kill"}]
                ELSE IF proc[c] # 0 THEN Poll(child, proc[c]) ELSE child
    /\ last' = Call("terminate", c, <<>>)
    /\ UNCHANGED <<proc, PROCS, pipes, temp, handles, handler, host, fs, ctor, samples>>

\* A terminate that signals the child without polling it first.
TerminateUnpolled(c) ==
    /\ host.st = "up"
    /\ IF proc[c] # 0
       THEN /\ child' = [child EXCEPT ![proc[c]].sig = @ \cup {"kill"}]
            /\ proc' = [proc EXCEPT ![c] = 0]
            /\ PROCS' = Collect(PROCS, proc')
            /\ pipes' = ClosePipes(pipes, proc')
       ELSE UNCHANGED <<child, proc, PROCS, pipes>>
    /\ last' = Call("terminate", c, <<>>)
    /\ UNCHANGED <<temp, handles, handler, host, fs, ctor, samples>>

\* AtomicCmd.terminate
Terminate(c) ==
    /\ host.st = "up"
    /\ IF proc[c] # 0 /\ child[proc[c]].st = "running"
       THEN /\ child' = [child EXCEPT ![proc[c]].sig = @ \cup {"kill"}]
            /\ proc' = [proc EXCEPT ![c] = 0]
            /\ PROCS' = Collect(PROCS, proc')
            /\ pipes' = ClosePipes(pipes, proc')
       ELSE /\ child' = IF proc[c] # 0 THEN Poll(child, proc[c]) ELSE child
            /\ UNCHANGED <<proc, PROCS, pipes>>
    /\ last' = Call("terminate", c, <<>>)
    /\ UNCHANGED <<temp, handles, handler, host, fs, ctor, samples>>

(***************************************************************************)
(* commit                                                                  *)
(***************************************************************************)
\* fileutils.move_file
MoveFile(files, source, destination) ==
    [files EXCEPT ![destination] = files[source], ![source] = 0]

\* fileutils.try_remove
TryRemove(files, filename) == [files EXCEPT ![filename] = 0]

\* A gate that finds nothing missing.
MissingFilesNone(c, t) == {}

\* expected_temp_files - set(os.listdir(temp))
MissingFiles(c, t) == ExpectedTempFiles(c) \ Listdir(fs, t)

\* A loop body that moves no OUT_ file.
CommitSlotTempOnly(c, files, key, filename) ==
    IF IsString(filename) /\ StartsWith(key, <<"TEMP", "OUT">>)
    THEN TryRemove(files, Realpath(filename.path))
    ELSE files

\* A loop body that removes only the TEMP_OUT_ files the caller declared.
CommitSlotKeepAuto(c, files, key, filename) ==
    IF IsString(filename)
    THEN IF StartsWith(key, <<"OUT">>)
         THEN MoveFile(files, Realpath(filename.path), Files(c)[key].path)
         ELSE IF StartsWith(key, <<"TEMP", "OUT">>) /\ key \in DOMAIN Kwargs(c)
              THEN TryRemove(files, Realpath(filename.path))
              ELSE files
    ELSE files

\* A loop body that removes the file of every TEMP_ slot.
CommitSlotAllTemp(c, files, key, filename) ==
    IF IsString(filename)
    THEN IF StartsWith(key, <<"OUT">>)
         THEN MoveFile(files, Realpath(filename.path), Files(c)[key].path)
         ELSE IF StartsWith(key, <<"TEMP", "OUT">>) \/ StartsWith(key, <<"TEMP", "IN">>)
              THEN TryRemove(files, Realpath(filename.path))
              ELSE files
    ELSE files

\* What one slot of the loop of commit does to the files.
CommitSlot(c, files, key, filename) ==
    IF IsString(filename)
    THEN IF StartsWith(key, <<"OUT">>)
         THEN MoveFile(files, Realpath(filename.path), Files(c)[key].path)
         ELSE IF StartsWith(key, <<"TEMP", "OUT">>)
              THEN TryRemove(files, Realpath(filename.path))
              ELSE files
    ELSE files

\* The loop of commit over the slots, in the order the dictionary yields.
RECURSIVE CommitFiles(_, _, _, _)
CommitFiles(c, files, kwords, keys) ==
    IF keys = {}
    THEN files
    ELSE LET key == CHOOSE k \in keys : TRUE
         IN  CommitFiles(c, CommitSlot(c, files, key, kwords[key]), kwords, keys \ {key})

\* A commit that checks neither the child nor the handles.
CommitRejectionGateOnly(c, t) ==
    IF ~Samefile(temp[c], t) THEN "temp mismatch"
    ELSE IF MissingFiles(c, t) # {} THEN "missing files"
    ELSE ""

\* A commit that does not ask for join.
CommitRejectionNoJoin(c, t) ==
    IF ~IsReady(c) THEN "not completed"
    ELSE IF ~Samefile(temp[c], t) THEN "temp mismatch"
    ELSE IF MissingFiles(c, t) # {} THEN "missing files"
    ELSE ""

\* The check commit rejects the call at, "": none.
CommitRejection(c, t) ==
    IF ~IsReady(c) THEN "not completed"
    ELSE IF handles[c] # {} THEN "before join"
    ELSE IF ~Samefile(temp[c], t) THEN "temp mismatch"
    ELSE IF MissingFiles(c, t) # {} THEN "missing files"
    ELSE ""

\* A commit that forgets the temp root of the run when it rejects the call.
CommitForgetting(c, t) ==
    LET call == Call("commit", c, t)
        kwords == GenerateFilenames(Files(c), t)
        rejection == CommitRejection(c, t)
    IN  /\ host.st = "up"
        /\ IF rejection # ""
           THEN /\ last' = [Raise(call, "CmdError", rejection) EXCEPT
                              !.names = IF rejection = "missing files"
                                        THEN MissingFiles(c, t) ELSE {}]
                /\ child' = IF proc[c] # 0 THEN Poll(child, proc[c]) ELSE child
                /\ temp' = [temp EXCEPT ![c] = <<>>]
                /\ UNCHANGED <<proc, PROCS, pipes, fs>>
           ELSE /\ fs' = CommitFiles(c, fs, kwords, DOMAIN kwords)
                /\ proc' = [proc EXCEPT ![c] = 0]
                /\ temp' = [temp EXCEPT ![c] = <<>>]
                /\ PROCS' = Collect(PROCS, proc')
                /\ pipes' = ClosePipes(pipes, proc')
                /\ child' = Poll(child, proc[c])
                /\ last' = call
        /\ UNCHANGED <<handles, handler, host, ctor, samples>>

\* AtomicCmd.commit
Commit(c, t) ==
    LET call == Call("commit", c, t)
        kwords == GenerateFilenames(Files(c), t)
        rejection == CommitRejection(c, t)
    IN  /\ host.st = "up"
        /\ IF rejection # ""
           THEN /\ last' = [Raise(call, "CmdError", rejection) EXCEPT
                              !.names = IF rejection = "missing files"
                                        THEN MissingFiles(c, t) ELSE {}]
                /\ child' = IF proc[c] # 0 THEN Poll(child, proc[c]) ELSE child
                /\ UNCHANGED <<proc, temp, PROCS, pipes, fs>>
           ELSE /\ fs' = CommitFiles(c, fs, kwords, DOMAIN kwords)
                /\ proc' = [proc EXCEPT ![c] = 0]
                /\ temp' = [temp EXCEPT ![c] = <<>>]
                /\ PROCS' = Collect(PROCS, proc')
                /\ pipes' = ClosePipes(pipes, proc')
                /\ child' = Poll(child, proc[c])
                /\ last' = call
        /\ UNCHANGED <<handles, handler, host, ctor, samples>>

\* A failing commit that clears the run state all the same.
CommitMoveFailsClearing(c, t, key, done) ==
    LET call == Call("commit", c, t)
        kwords == GenerateFilenames(Files(c), t)
    IN  /\ host.st = "up"
        /\ CommitRejection(c, t) = ""
        /\ key \in OutKeys(c)
        /\ done \subseteq DOMAIN kwords \ {key}
        /\ fs' = CommitFiles(c, fs, kwords, done)
        /\ proc' = [proc EXCEPT ![c] = 0]
        /\ temp' = [temp EXCEPT ![c] = <<>>]
        /\ PROCS' = Collect(PROCS, proc')
        /\ pipes' = ClosePipes(pipes, proc')
        /\ child' = Poll(child, proc[c])
        /\ last' = Raise(call, "IOError", "move failed")
        /\ UNCHANGED <<handles, handler, host, ctor, samples>>

\* AtomicCmd.commit when fileutils.move_file raises for the slot key, after
\* the loop has dealt with the slots of done: the exception leaves the loop
\* and the method.
CommitMoveFails(c, t, key, done) ==
    LET call == Call("commit", c, t)
        kwords == GenerateFilenames(Files(c), t)
    IN  /\ host.st = "up"
        /\ CommitRejection(c, t) = ""
        /\ key \in OutKeys(c)
        /\ done \subseteq DOMAIN kwords \ {key}
        /\ fs' = CommitFiles(c, fs, kwords, done)
        /\ child' = Poll(child, proc[c])
        /\ last' = Raise(call, "IOError", "move failed")
        /\ UNCHANGED <<proc, temp, handles, PROCS, pipes, handler, host, ctor, samples>>

(***************************************************************************)
(* SIGTERM to the host                                                     *)
(***************************************************************************)
\* Whether os.killpg finds a process in the group of child p.
GroupAlive(ch, p) == ch[p].st \in {"running", "zombie"} \/ ch[p].desc

\* os.killpg(pid, SIGTERM) for the references of the snapshot, in its order,
\* up to the first that raises: <<the children, whether a call raised>>.
RECURSIVE KillGroups(_, _)
KillGroups(ch, order) ==
    IF order = <<>>
    THEN <<ch, FALSE>>
    ELSE IF GroupAlive(ch, Head(order))
         THEN KillGroups([ch EXCEPT ![Head(order)].sig = @ \cup {"killpg"}], Tail(order))
         ELSE <<ch, TRUE>>

Orders(S) == {o \in [1..Cardinality(S) -> S] : \A p \in S : \E i \in DOMAIN o : o[i] = p}

\* _cleanup_children, or the default action of SIGTERM when it is not installed
CleanupChildren(order) ==
    LET call == Call("sigterm", 0, <<>>)
        killed == KillGroups(child, order)
    IN  /\ host.st \in {"up", "in run"}
        /\ order \in Orders(PROCS)
        /\ IF ~handler
           THEN /\ host' = [st |-> "killed", status |-> {}]
                /\ last' = call
                /\ UNCHANGED child
           ELSE /\ child' = killed[1]
                /\ IF killed[2]
                   THEN /\ last' = Raise(call, "OSError", "no such process")
                        /\ UNCHANGED host
                   ELSE /\ last' = call
                        /\ host' = [st |-> "exited", status |-> {-SIGTERM}]
        /\ UNCHANGED <<proc, temp, handles, PROCS, pipes, handler, fs, ctor, samples>>

(***************************************************************************)
(* The children                                                            *)
(***************************************************************************)
Env == Call("child", 0, <<>>)

\* The exit codes of a child: its own, or that of SIGTERM once it got one.
ExitCodes(ch) == {0, 1} \cup (IF ch.sig # {} THEN {-SIGTERM} ELSE {})

ChildExit(p, rc) ==
    /\ host.st = "up"
    /\ child[p].st = "running"
    /\ child[p].blocked => child[p].sig # {}
    /\ rc \in ExitCodes(child[p])
    /\ child' = [child EXCEPT ![p].st = "zombie", ![p].rc = {rc}]
    /\ last' = Env
    /\ UNCHANGED <<proc, temp, handles, PROCS, pipes, handler, host, fs, ctor, samples>>

\* A descendant in the child's process group ends: by itself, or by a
\* SIGTERM sent to the group.
DescendantExit(p) ==
    /\ host.st = "up"
    /\ child[p].desc
    /\ child' = [child EXCEPT ![p].desc = FALSE]
    /\ last' = Env
    /\ UNCHANGED <<proc, temp, handles, PROCS, pipes, handler, host, fs, ctor, samples>>

\* The files a child of descriptor c writes by itself: its outputs other
\* than the streams the host opened for it.
ChildFiles(c) ==
    {Basename(Files(c)[k].path) :
        k \in {k \in OutKeys(c) \cup TempOutKeys(c) :
                 k \notin Pipes /\ k \notin {<<"TEMP">> \o pipe : pipe \in Pipes}}}

ChildWrite(p, b) ==
    /\ host.st = "up"
    /\ child[p].st = "running"
    /\ b \in ChildFiles(child[p].owner)
    /\ fs' = [fs EXCEPT ![Realpath(PathJoin(child[p].root, b))] = p]
    /\ last' = Env
    /\ UNCHANGED <<proc, temp, handles, PROCS, pipes, handler, host, child, ctor, samples>>

\* A child leaves a file in its temp root that no slot names.
ChildWriteUndeclared(p) ==
    /\ host.st = "up"
    /\ child[p].st = "running"
    /\ fs' = [fs EXCEPT ![Realpath(PathJoin(child[p].root, Undeclared))] = p]
    /\ last' = Env
    /\ UNCHANGED <<proc, temp, handles, PROCS, pipes, handler, host, child, ctor, samples>>

\* The stdout of child p is the pipe Popen made for it (stdout = PIPE).
HasPipe(p) ==
    child[p].owner # 0 /\ PipeTarget(Files(child[p].owner), PipeOut) = PIPE

\* The running children that hold the read end of p's pipe as their stdin.
Readers(p) == {q \in Pids : child[q].st = "running" /\ child[q].src = p}

\* The host holds the read end of p's pipe: the stdout of the Popen object.
HostHoldsPipe(p) == p \in pipes

\* A child writes to its pipe when the pipe is full: the write blocks.
ChildBlocks(p) ==
    /\ host.st = "up"
    /\ child[p].st = "running"
    /\ HasPipe(p)
    /\ ~child[p].blocked
    /\ Readers(p) # {} \/ HostHoldsPipe(p)
    /\ child' = [child EXCEPT ![p].blocked = TRUE]
    /\ last' = Env
    /\ UNCHANGED <<proc, temp, handles, PROCS, pipes, handler, host, fs, ctor, samples>>

\* A child that reads the pipe drains it: the blocked write goes on.
ChildResumes(p) ==
    /\ host.st = "up"
    /\ child[p].st = "running"
    /\ child[p].blocked
    /\ Readers(p) # {}
    /\ child' = [child EXCEPT ![p].blocked = FALSE]
    /\ last' = Env
    /\ UNCHANGED <<proc, temp, handles, PROCS, pipes, handler, host, fs, ctor, samples>>

\* No read end of the pipe is open any more: the write fails (EPIPE) and the
\* child ends with an error.
ChildPipeBroken(p) ==
    /\ host.st = "up"
    /\ child[p].st = "running"
    /\ HasPipe(p)
    /\ Readers(p) = {}
    /\ ~HostHoldsPipe(p)
    /\ child' = [child EXCEPT ![p].st = "zombie", ![p].rc = {1}, ![p].blocked = FALSE]
    /\ last' = Env
    /\ UNCHANGED <<proc, temp, handles, PROCS, pipes, handler, host, fs, ctor, samples>>

(***************************************************************************)
(* The constructor, called with keywords drawn from a few slots and values *)
(***************************************************************************)
CtorId == 1
CtorCommand == Command(1)

CtorKeys ==
    {PipeOut, <<"TEMP">> \o PipeOut, <<"OUT", "FILE">>, <<"TEMP", "OUT", "LOG">>}

CtorValues ==
    {NoneV, PIPE, Str(<<>>), Str(<<"log">>), Str(<<"dest", "log">>),
     Str(<<"dest">> \o PipeFilename(Basename(CtorCommand[1])[1], CtorId, "stdout"))}

CtorKwargs == UNION {[keys -> CtorValues] : keys \in SUBSET CtorKeys}

\* Keywords of every kind of slot, each absent or with one of its values.
CtorSlotValues ==
    (<<"IN", "FILE">> :> {NoneV, Str(<<"data", "in">>)})
    @@ (PipeIn :> {Str(<<"data", "stdin">>), CmdRef(1)})
    @@ (<<"TEMP", "IN", "CFG">> :> {Str(<<"cfg">>)})
    @@ (<<"OUT", "FILE">> :> {Str(<<"dest", "a">>)})
    @@ (PipeOut :> {PIPE, Str(<<"dest", "count">>)})
    @@ (<<"TEMP", "OUT", "LOG">> :> {Str(<<"log">>)})
    @@ (<<"EXEC", "TOOL">> :> {Str(<<"usr", "bin", "tool">>)})
    @@ (<<"AUX", "DB">> :> {Str(<<"data", "db">>)})

\* The keyword maps over keys: each key absent or with one of its values.
RECURSIVE SlotKwargs(_)
SlotKwargs(keys) ==
    IF keys = {}
    THEN {<<>>}
    ELSE LET key == CHOOSE k \in keys : TRUE
             rest == SlotKwargs(keys \ {key})
         IN  rest \cup {(key :> v) @@ r : v \in CtorSlotValues[key], r \in rest}

CtorSlotKwargs == SlotKwargs(DOMAIN CtorSlotValues)

InitCtor ==
    /\ Constructed
    /\ samples = NoSamples
    /\ ctor \in {[NoCtor EXCEPT !.st = "called", !.id = CtorId, !.kwargs = kwargs] :
                    kwargs \in CtorKwargs \cup CtorSlotKwargs}

\* AtomicCmd.__init__: _process_arguments raises or yields _files.
Construct ==
    LET exc == ProcessArgumentsError(ctor.kwargs)
    IN  /\ ctor.st = "called"
        /\ ctor' = IF exc # ""
                   THEN [ctor EXCEPT !.st = "rejected", !.exc = exc]
                   ELSE [ctor EXCEPT !.st = "accepted",
                            !.files = ProcessArguments(ctor.id, CtorCommand, ctor.kwargs),
                            !.sets = BuildFilesMap(CtorCommand,
                                        ProcessArguments(ctor.id, CtorCommand, ctor.kwargs))]
        /\ UNCHANGED <<proc, temp, handles, PROCS, pipes, handler, host, child, fs,
                       samples, last>>

NextCtor == Construct

SpecCtor == InitCtor /\ [][NextCtor]_vars

(***************************************************************************)
(* zonkey: the validation of the BAM files of a sample                     *)
(***************************************************************************)
\* Bound on the number of BAM files of the sample.
MaxFiles == 3

\* What database.validate_bam finds in a file: nothing valid, no known
\* contig, or nuclear and mitochondrial contigs.
FileTypes ==
    {[valid |-> FALSE, is_nuclear |-> FALSE, is_mitochondrial |-> FALSE]}
    \cup [valid : {TRUE}, is_nuclear : BOOLEAN, is_mitochondrial : BOOLEAN]

TwoNuclear == "ERROR: Two nuclear BAMs specified!"
NotBam == "ERROR: File is not a valid BAM file"
NoContigs == "ERROR: BAM does not contain known nuclear or mitochondrial contigs"

\* The loop of _process_samples over the files of one sample from the i-th
\* on, files being the dictionary built so far (the index of the file kept
\* under Nuc and under Mito): <<the dictionary, the error written>>.
RECURSIVE ProcessFiles(_, _, _)
ProcessFiles(bams, i, files) ==
    IF i > Len(bams)
    THEN <<files, "">>
    ELSE LET filetype == bams[i]
         IN  IF ~filetype.valid THEN <<files, NotBam>>
             ELSE IF filetype.is_nuclear /\ filetype.is_mitochondrial
                  THEN IF "Nuc" \in DOMAIN files
                       THEN <<files, TwoNuclear>>
                       ELSE ProcessFiles(bams, i + 1,
                               ("Nuc" :> i) @@ files @@ ("Mito" :> i))
             ELSE IF filetype.is_nuclear
                  THEN IF "Nuc" \in DOMAIN files
                       THEN <<files, TwoNuclear>>
                       ELSE ProcessFiles(bams, i + 1, ("Nuc" :> i) @@ files)
             ELSE IF filetype.is_mitochondrial
                  THEN IF "Mito" \in DOMAIN files
                       THEN <<files, TwoNuclear>>
                       ELSE ProcessFiles(bams, i + 1, ("Mito" :> i) @@ files)
             ELSE <<files, NoContigs>>

SampleBams == UNION {[1..n -> FileTypes] : n \in 0..MaxFiles}

InitSamples ==
    /\ Constructed
    /\ ctor = NoCtor
    /\ samples \in {[NoSamples EXCEPT !.st = "called", !.bams = bams] : bams \in SampleBams}

\* _process_samples for one sample
ProcessSamples ==
    LET result == ProcessFiles(samples.bams, 1, <<>>)
    IN  /\ samples.st = "called"
        /\ samples' = [samples EXCEPT
                          !.st = IF result[2] = "" THEN "accepted" ELSE "rejected",
                          !.files = result[1],
                          !.err = result[2]]
        /\ UNCHANGED <<proc, temp, handles, PROCS, pipes, handler, host, child, fs,
                       ctor, last>>

NextSamples == ProcessSamples

SpecSamples == InitSamples /\ [][NextSamples]_vars

\* The caller drives one descriptor: it calls c only while no other
\* descriptor has been run.
Untouched(c) ==
    /\ proc[c] = 0 /\ temp[c] = <<>> /\ handles[c] = {}
    /\ \A p \in Pids : child[p].owner # c

Driven == {c \in Cmds : \A o \in Cmds \ {c} : Untouched(o)}

\* The content of a file the caller wrote.
Staged == MaxProcs + 1

\* The caller puts the TEMP_IN_ files of descriptor c into temp root t before
\* it runs c.
Stage(c, t) ==
    /\ host.st = "up"
    /\ Untouched(c)
    /\ TempInKeys(c) # {}
    /\ \E b \in TempInNames(c) : fs[Realpath(PathJoin(t, b))] = 0
    /\ fs' = [f \in FilePaths |->
                IF f \in {Realpath(PathJoin(t, b)) : b \in TempInNames(c)}
                THEN Staged ELSE fs[f]]
    /\ last' = Call("stage", c, t)
    /\ UNCHANGED <<proc, temp, handles, PROCS, pipes, handler, host, child, ctor, samples>>

\* The calls of the caller; a child launched by run has descendants in its
\* process group or not, as descendants says.
HostStep(descendants) ==
    \/ \E c \in Driven, t \in RunRoots, d \in descendants :
          \E fail \in RunFailures(c, t) : Run(c, t, fail, d)
    \/ \E c \in Driven : Ready(c)
    \/ \E c \in Driven : Join(c)
    \/ \E c \in Driven : Terminate(c)
    \/ \E c \in Driven, t \in TempRoots : Commit(c, t)
    \/ \E order \in Orders(PROCS) : CleanupChildren(order)

ChildStep ==
    \/ \E p \in Pids, rc \in {0, 1, -SIGTERM} : ChildExit(p, rc)
    \/ \E p \in Pids, b \in UNION {ChildFiles(c) : c \in Cmds} : ChildWrite(p, b)

\* Children that are alone in their process group.
Next == HostStep({FALSE}) \/ ChildStep

Spec == Init /\ [][Next]_vars

\* Children with or without descendants in their process group.
NextGroups ==
    \/ HostStep(BOOLEAN)
    \/ ChildStep
    \/ \E p \in Pids : DescendantExit(p)

SpecGroups == Init /\ [][NextGroups]_vars

\* A producer and its consumer side by side, launched without failures, with
\* the caller reading the stdout property and joins that may be interrupted.
PipeStep ==
    \/ \E c \in Cmds, t \in RunRoots : Run(c, t, <<>>, FALSE)
    \/ \E c \in Cmds : Join(c)
    \/ \E c \in Cmds : JoinInterrupted(c)
    \/ \E c \in Cmds : GetStdout(c)
    \/ \E c \in Cmds : Terminate(c)
    \/ \E c \in Cmds, t \in RunRoots : Commit(c, t)

NextPipe == PipeStep \/ ChildStep

\* SIGTERM reaching the host at any point of run: run is taken in its two
\* steps, around calls of join and the exits of the children.
SignalStep ==
    \/ \E c \in Cmds, t \in RunRoots : RunSpawn(c, t)
    \/ RunRegister
    \/ \E c \in Cmds : Join(c)
    \/ \E order \in Orders(PROCS) : CleanupChildren(order)

NextSignal == SignalStep \/ ChildStep

SpecSignal == Init /\ [][NextSignal]_vars

\* A producer and its consumer with the pipe between them: a write to the
\* full pipe blocks until a reader drains it or no read end is left.
ChainStep ==
    \/ \E c \in Cmds, t \in RunRoots : Run(c, t, <<>>, FALSE)
    \/ \E c \in Cmds : Join(c)
    \/ \E c \in Cmds : Terminate(c)

PipeFlow ==
    \/ \E p \in Pids : ChildBlocks(p)
    \/ \E p \in Pids : ChildResumes(p)
    \/ \E p \in Pids : ChildPipeBroken(p)

NextChain == ChainStep \/ ChildStep \/ PipeFlow

SpecChain == Init /\ [][NextChain]_vars

\* A child that can go on ends, a blocked write goes on once the pipe is
\* drained and fails once no read end is left; nothing is assumed of the
\* host's calls.
ChainFairness ==
    \A p \in Pids :
       /\ WF_vars(\E rc \in {0, 1, -SIGTERM} : ChildExit(p, rc))
       /\ WF_vars(ChildResumes(p))
       /\ WF_vars(ChildPipeBroken(p))

SpecChainFair == SpecChain /\ ChainFairness

\* One descriptor run to its commit in a temp root that also holds the
\* TEMP_IN_ files the caller staged and a file the child did not declare.
FrameStep ==
    \/ \E c \in Driven, t \in RunRoots : Stage(c, t)
    \/ \E c \in Driven, t \in RunRoots : Run(c, t, <<>>, FALSE)
    \/ \E c \in Driven : Join(c)
    \/ \E c \in Driven, t \in TempRoots : Commit(c, t)
    \/ \E c \in Driven, t \in TempRoots :
          \E key \in OutKeys(c) :
             \E done \in SUBSET (DOMAIN GenerateFilenames(Files(c), t) \ {key}) :
                CommitMoveFails(c, t, key, done)
    \/ \E p \in Pids : ChildWriteUndeclared(p)

NextFrame == FrameStep \/ ChildStep

SpecFrame == Init /\ [][NextFrame]_vars

SpecPipe == Init /\ [][NextPipe]_vars

(***************************************************************************)
(* Properties                                                              *)
(***************************************************************************)
\* The step is a call of commit on descriptor c with temp root t.
CommitStep(c, t) == last'.op = "commit" /\ last'.cmd = c /\ last'.temp = t

\* The child of the latest run of c has exited and join has closed the
\* handles of that run.
RunExitedJoined(c) ==
    /\ proc[c] # 0
    /\ child[proc[c]].st \in {"zombie", "reaped"}
    /\ handles[c] = {}

\* The resolved path of slot k of c in temp root t.
TempPath(c, t, k) == Realpath(PathJoin(t, Basename(Files(c)[k].path)))

\* C1: commit moves or removes a file only if a child launched by run on
\* the descriptor has exited and join was called after that run (no handle
\* is open); in every other case commit raises CmdError and changes no file.
C1_CommitOnlyAfterRunExitJoin ==
    [][\A c \in Cmds, t \in TempRoots :
          CommitStep(c, t) /\ ~RunExitedJoined(c)
             => last'.exc = "CmdError" /\ fs' = fs]_vars

C1_Witness ==
    /\ last.op = "commit" /\ last.exc = ""
    /\ \E p \in Pids : child[p].owner = last.cmd /\ child[p].st = "reaped"

\* C2: when a basename of expected_temp_files is absent from the temp root
\* at a commit, the commit raises CmdError and no file is moved or removed;
\* when the call is not already rejected for the child, the handles or the
\* temp root, the error lists exactly the missing basenames.
C2_AtomicityGate ==
    [][\A c \in Cmds, t \in TempRoots :
          LET missing == {Basename(p) : p \in OutputFiles(c)} \ Listdir(fs, t)
          IN  CommitStep(c, t) /\ missing # {}
                 => /\ last'.exc = "CmdError"
                    /\ fs' = fs
                    /\ RunExitedJoined(c) /\ Samefile(temp[c], t)
                          => last'.msg = "missing files" /\ last'.names = missing]_vars

C2_Witness ==
    /\ last.op = "commit" /\ last.msg = "missing files" /\ last.names # {}
    /\ \A p \in OutputFiles(last.cmd) : fs[p] = 0

\* C3: after a commit that raises nothing, every OUT_ slot with a path value
\* p holds at p the file that was at temp_root/basename(p) before the commit,
\* and temp_root/basename(p) no longer exists.
C3_OutputsMoved ==
    [][\A c \in Cmds, t \in TempRoots :
          CommitStep(c, t) /\ last'.exc = ""
             => \A k \in OutKeys(c) :
                   /\ fs[TempPath(c, t, k)] # 0
                   /\ fs'[Files(c)[k].path] = fs[TempPath(c, t, k)]
                   /\ fs'[TempPath(c, t, k)] = 0]_vars

C3_Witness ==
    /\ last.op = "commit" /\ last.exc = ""
    /\ OutKeys(last.cmd) # {}
    /\ \A k \in OutKeys(last.cmd) : fs[Files(last.cmd)[k].path] # 0

\* C4: after a commit that raises nothing, no TEMP_OUT_ slot of the
\* descriptor, declared or filled in for stdout/stderr, has a file in the
\* temp root.
C4_TempOutputsRemoved ==
    (last.op = "commit" /\ last.exc = "")
       => \A k \in TempOutKeys(last.cmd) : fs[TempPath(last.cmd, last.temp, k)] = 0

C4_Witness ==
    /\ last.op = "commit" /\ last.exc = ""
    /\ \E k \in TempOutKeys(last.cmd) : k \in DOMAIN Kwargs(last.cmd)
    /\ \E k \in TempOutKeys(last.cmd) : k \notin DOMAIN Kwargs(last.cmd)

LatestChild(c) ==
    LET own == {p \in Pids : child[p].owner = c}
    IN  IF own = {} THEN 0 ELSE CHOOSE p \in own : \A q \in own : q <= p

\* terminate has sent SIGTERM to the running child of the latest run of c.
Terminated(c) ==
    /\ LatestChild(c) # 0
    /\ "kill" \in child[LatestChild(c)].sig
    /\ proc[c] \in {0, LatestChild(c)}

\* C6, as stated: a descriptor launches at most one child, whatever is
\* called between two calls of run.
C6_SingleUse ==
    \A c \in Cmds : Cardinality({p \in Pids : child[p].owner = c}) <= 1

\* C7: run on a descriptor that has an open handle raises CmdError, spawns
\* no child and leaves the temp root, the process handle, the handles, the
\* killlist and the files as they were.
C7_RunWhileRunningRejected ==
    [][\A c \in Cmds :
          last'.op = "run" /\ last'.cmd = c /\ handles[c] # {}
             => /\ last'.exc = "CmdError"
                /\ UNCHANGED <<proc, temp, handles, PROCS, pipes, handler, child, fs>>]_vars

C7_Witness ==
    /\ last.op = "run" /\ last.exc = "CmdError"
    /\ proc[last.cmd] # 0 /\ child[proc[last.cmd]].st = "running"
    /\ handles[last.cmd] # {}

\* C8, as stated: a join that follows terminate on a running child returns
\* the exit code of that child, not None.
C8_JoinAfterTerminateReturnsCode ==
    (last.op = "join" /\ Terminated(last.cmd))
       => /\ last.ret # << {} >>
          /\ last.ret = <<child[LatestChild(last.cmd)].rc>>

\* C9, as stated: once terminate and then join were called on a descriptor
\* whose child had descendants in its process group, no descendant is alive.
C9_TerminateReachesGroup ==
    (last.op = "join" /\ Terminated(last.cmd))
       => ~child[LatestChild(last.cmd)].desc

\* C10, as stated: the handler of SIGTERM sends SIGTERM to the process group
\* of every child in the killlist and the host then exits with -SIGTERM.
C10_CleanupSignalsAllAndExits ==
    (last.op = "sigterm" /\ handler)
       => /\ \A p \in PROCS : "killpg" \in child[p].sig
          /\ host = [st |-> "exited", status |-> {-SIGTERM}]

\* C11, as stated: every entry of the killlist refers to a child that is
\* alive; a child that exited and was waited for by join is not in it.
C11_KilllistHoldsLiveChildren ==
    \A p \in PROCS : child[p].st # "reaped"

\* C12, as stated: ready() is true exactly when run has launched a child for
\* the descriptor and the latest such child has exited, also after terminate
\* and after a commit.
C12_ReadyIffChildExited ==
    last.op = "ready"
       => (last.flag <=> /\ LatestChild(last.cmd) # 0
                         /\ child[LatestChild(last.cmd)].st # "running")

\* The stdout the descriptor declares: OUT_STDOUT or TEMP_OUT_STDOUT.
DeclaredStdout(c) == PipeTarget(Files(c), PipeOut)

\* C13, as stated: the stdout property yields the pipe exactly when the
\* declared stdout is PIPE and the child of the descriptor is running; it
\* yields None once the child has finished, also before commit.
C13_StdoutIffPipeAndRunning ==
    last.op = "stdout"
       => (last.ret # <<0>> <=> /\ DeclaredStdout(last.cmd) = PIPE
                                /\ LatestChild(last.cmd) # 0
                                /\ child[LatestChild(last.cmd)].st = "running")

\* C14, as stated: a join on a descriptor that was run empties the handle
\* table of the descriptor, whether the wait returns or raises, touches no
\* handle of another descriptor and closes no stdout pipe of a producer; when
\* it returns, it returns the exit code of the child in a one-element list,
\* so a second join returns the same code.
C14_JoinReturnsCodeClosesOwnHandles ==
    [][\A c \in Cmds :
          last'.op = "join" /\ last'.cmd = c /\ LatestChild(c) # 0
             => /\ handles'[c] = {}
                /\ \A o \in Cmds \ {c} : handles'[o] = handles[o]
                /\ pipes' = pipes
                /\ last'.exc = ""
                      => /\ child'[LatestChild(c)].rc # {}
                         /\ last'.ret = <<child'[LatestChild(c)].rc>>]_vars

\* C15, as stated: after a run that failed to launch a child on a descriptor
\* that never had one, no temp root is bound, no handle is open (so a later
\* run is accepted) and the killlist holds no child of the descriptor.
C15_FailedLaunchStaysConstructed ==
    (last.op = "run" /\ last.exc \in {"IOError", "OSError"}
                     /\ LatestChild(last.cmd) = 0)
       => /\ temp[last.cmd] = <<>>
          /\ handles[last.cmd] = {}
          /\ ~AlreadyRunning(last.cmd)
          /\ \A p \in PROCS : child[p].owner # last.cmd

\* C16: a commit changes no file other than the resolved paths of the OUT_
\* and TEMP_OUT_ slots of the descriptor in the temp root and the OUT_
\* destinations: files of TEMP_IN_ slots and files no slot names stay as
\* they are.
C16_CommitLeavesOtherFiles ==
    [][\A c \in Cmds, t \in TempRoots :
          CommitStep(c, t)
             => \A f \in FilePaths :
                   fs'[f] # fs[f]
                      => \/ f \in {TempPath(c, t, k) : k \in OutKeys(c) \cup TempOutKeys(c)}
                         \/ f \in OutputFiles(c)]_vars

C16_Witness ==
    /\ last.op = "commit" /\ last.exc = ""
    /\ TempInKeys(last.cmd) # {}
    /\ \A b \in TempInNames(last.cmd) : fs[Realpath(PathJoin(last.temp, b))] = Staged
    /\ fs[Realpath(PathJoin(last.temp, Undeclared))] # 0
    /\ \A p \in OutputFiles(last.cmd) : fs[p] # 0

\* C17: terminate is idempotent. After a terminate the descriptor holds no
\* running child, and a terminate on a descriptor that holds no running
\* child (never run, exited, terminated, committed) sends no signal and
\* changes neither the descriptor, the killlist nor the files: a second
\* terminate leaves what the first left.
C17_TerminateIdempotent ==
    [][\A c \in Cmds :
          last'.op = "terminate" /\ last'.cmd = c
             => /\ proc'[c] # 0 => child'[proc'[c]].st = "reaped"
                /\ (proc[c] = 0 \/ child[proc[c]].st # "running")
                      => /\ UNCHANGED <<proc, temp, handles, PROCS, pipes, handler, host, fs, ctor, samples>>
                         /\ \A p \in Pids : /\ child'[p].sig = child[p].sig
                                             /\ child'[p].rc = child[p].rc]_vars

\* A second terminate, called after the child died of the first.
C17_Witness ==
    /\ last.op = "terminate"
    /\ Terminated(last.cmd)
    /\ child[LatestChild(last.cmd)].st = "zombie"
    /\ child[LatestChild(last.cmd)].sig = {"kill"}

\* C18: a commit whose temp root does not denote the directory of the
\* preceding run raises CmdError and changes no file; a commit whose temp
\* root is another path to that directory is not rejected for its temp root.
C18_CommitTempRootChecked ==
    [][\A c \in Cmds, t \in TempRoots :
          CommitStep(c, t)
             => /\ (temp[c] = <<>> \/ Realpath(temp[c]) # Realpath(t))
                      => last'.exc = "CmdError" /\ fs' = fs
                /\ (temp[c] # <<>> /\ Realpath(temp[c]) = Realpath(t))
                      => last'.msg # "temp mismatch"]_vars

C18_Witness ==
    /\ last.op = "commit" /\ last.exc = "CmdError" /\ last.msg = "temp mismatch"
    /\ temp[last.cmd] # <<>>
    /\ Realpath(temp[last.cmd]) # Realpath(last.temp)
    /\ \A p \in OutputFiles(last.cmd) : fs[p] = 0

\* A commit through another path to the temp root of the run succeeded.
C18_WitnessOtherPath ==
    /\ last.op = "commit" /\ last.exc = ""
    /\ last.temp \notin RunRoots
    /\ \A p \in OutputFiles(last.cmd) : fs[p] # 0

\* The output slots of a slot map that hold a path.
OutputSlots(files) ==
    {key \in DOMAIN files :
        /\ StartsWith(key, <<"TEMP", "OUT">>) \/ StartsWith(key, <<"OUT">>)
        /\ IsString(files[key])}

\* C19, as stated: in the slot map of an accepted descriptor no two output
\* slots with a path, declared or filled in for stdout/stderr, have the same
\* basename.
C19_OutputBasenamesUnique ==
    ctor.st = "accepted"
       => \A a, b \in OutputSlots(ctor.files) :
             a # b => Basename(ctor.files[a].path) # Basename(ctor.files[b].path)

\* C20, as stated: the slot map of an accepted descriptor holds at most one
\* of the two forms of each standard stream, and keywords that give both
\* forms a value other than None are rejected, whatever the values.
C20_PipeFormsExclusive ==
    /\ ctor.st = "accepted"
          => \A pipe \in Pipes :
                ~(pipe \in DOMAIN ctor.files /\ (<<"TEMP">> \o pipe) \in DOMAIN ctor.files)
    /\ (ctor.st \in {"accepted", "rejected"} /\ ValidatePipesNotNone(ctor.kwargs))
          => ctor.st = "rejected"

\* The path values of the slots of a slot map whose key starts with prefix.
SlotPaths(files, prefix) ==
    {files[key].path :
        key \in {k \in DOMAIN files : IsString(files[k]) /\ StartsWith(k, prefix)}}

\* C21: for an accepted descriptor input_files is the set of path values of
\* the IN_ slots and output_files that of the OUT_ slots (no TEMP_ value, no
\* PIPE, no descriptor), expected_temp_files is the set of basenames of
\* output_files, optional_temp_files that of the TEMP_OUT_ path values, and
\* executables holds argv[0] and every EXEC_ value.
C21_FileSetIndex ==
    ctor.st = "accepted"
       => /\ ctor.sets.input = SlotPaths(ctor.files, <<"IN">>)
          /\ ctor.sets.output = SlotPaths(ctor.files, <<"OUT">>)
          /\ ctor.sets.output_fname = {Basename(f) : f \in ctor.sets.output}
          /\ ctor.sets.temporary_fname
                = {Basename(f) : f \in SlotPaths(ctor.files, <<"TEMP", "OUT">>)}
          /\ CtorCommand[1] \in ctor.sets.executable
          /\ SlotPaths(ctor.files, <<"EXEC">>) \subseteq ctor.sets.executable

C21_Witness ==
    /\ ctor.st = "accepted"
    /\ DOMAIN CtorSlotValues \subseteq DOMAIN ctor.files
    /\ ctor.files[PipeIn] = CmdRef(1)
    /\ ctor.files[PipeOut] = PIPE
    /\ ctor.sets.input = {<<"data", "in">>}
    /\ ctor.sets.output = {<<"dest", "a">>}

\* The descriptor the stdin slot of c holds, 0: none.
Producer(c) ==
    IF PipeTarget(Files(c), PipeIn).t = "cmd" THEN PipeTarget(Files(c), PipeIn).cmd ELSE 0

C23_FailedMoveKeepsPartialCommit ==
    [][\A c \in Cmds, t \in TempRoots :
          CommitStep(c, t) /\ last'.exc = "IOError"
             => /\ proc'[c] = proc[c] /\ proc[c] # 0
                /\ temp'[c] = temp[c] /\ temp[c] # <<>>
                /\ \A k \in OutKeys(c) :
                      \/ /\ fs'[Files(c)[k].path] = fs[TempPath(c, t, k)]
                         /\ fs'[TempPath(c, t, k)] = 0
                      \/ /\ fs'[Files(c)[k].path] = fs[Files(c)[k].path]
                         /\ fs'[TempPath(c, t, k)] = fs[TempPath(c, t, k)]
                /\ \E k \in OutKeys(c) :
                      fs'[TempPath(c, t, k)] = fs[TempPath(c, t, k)]]_vars

\* A commit failed after it had moved one output and before another.
C23_Witness ==
    /\ last.op = "commit" /\ last.exc = "IOError"
    /\ proc[last.cmd] # 0 /\ temp[last.cmd] # <<>>
    /\ \E k \in OutKeys(last.cmd) :
          fs[Files(last.cmd)[k].path] # 0 /\ fs[TempPath(last.cmd, last.temp, k)] = 0
    /\ \E k \in OutKeys(last.cmd) :
          fs[Files(last.cmd)[k].path] = 0 /\ fs[TempPath(last.cmd, last.temp, k)] # 0

\* C24: the SIGTERM handler becomes installed only in a run that inserts
\* its child into an empty killlist, and whenever the killlist is not empty
\* the handler is installed.
C24_HandlerInstalledWithFirstEntry ==
    [][/\ PROCS' # {} => handler'
       /\ handler' # handler
             => /\ handler'
                /\ last'.op = "run" /\ last'.exc = ""
                /\ Collect(PROCS, proc') = {}
                /\ PROCS' = {proc'[last'.cmd]}]_vars

\* A second child was inserted next to the first.
C24_Witness ==
    /\ last.op = "run" /\ last.exc = ""
    /\ Cardinality(PROCS) = 2
    /\ handler

\* The files of the sample with nuclear contigs.
NuclearBams == {i \in DOMAIN samples.bams : samples.bams[i].is_nuclear}

\* C25, as stated: a rejection names the kind of BAM given twice: the error
\* about two nuclear BAMs is written only for a sample with two nuclear BAMs.
C25_ErrorNamesKind ==
    (samples.st = "rejected" /\ samples.err = TwoNuclear)
       => Cardinality(NuclearBams) >= 2

\* C26, as stated: at every point where the SIGTERM handler can run, every
\* child that run has spawned and that has not exited is in the killlist.
C26_NoChildEscapesCleanup ==
    (handler /\ host.st \in {"up", "in run"})
       => \A p \in Pids : child[p].st = "running" => p \in PROCS

\* C27: once terminate has signalled the running child of a descriptor,
\* every later commit on it, with or without a join in between and without a
\* new run, raises CmdError and changes no file.
C27_NoCommitAfterTerminate ==
    [][\A c \in Cmds, t \in TempRoots :
          (Terminated(c) /\ CommitStep(c, t))
             => (last'.exc = "CmdError" /\ fs' = fs)]_vars

\* A commit was rejected on a terminated descriptor whose child had written
\* every expected file, after a join.
C27_Witness ==
    /\ last.op = "commit"
    /\ last.exc = "CmdError"
    /\ Terminated(last.cmd)
    /\ handles[last.cmd] = {}
    /\ child[LatestChild(last.cmd)].st # "running"
    /\ MissingFiles(last.cmd, last.temp) = {}

\* The child that read p's pipe has exited while p is still running.
ReaderGone(p) ==
    /\ child[p].st = "running"
    /\ \E q \in Pids : child[q].src = p /\ child[q].st \in {"zombie", "reaped"}
    /\ Readers(p) = {}

\* C28, as stated: when the consumer's child exits before the producer's,
\* the producer's child eventually exits.
C28_ProducerExitsAfterConsumer ==
    \A p \in Pids : ReaderGone(p) ~> (child[p].st # "running")

\* C29: a commit that raises CmdError leaves the process handle, the temp
\* root, the handles and every file of the descriptor as they were; a commit
\* in the temp root of the run, once the child has exited, join was called
\* and no expected file is missing, succeeds; a commit that succeeds drops
\* the process handle of the run, and a commit without one raises CmdError.
C29_RejectedCommitChangesNothing ==
    [][\A c \in Cmds, t \in TempRoots :
          CommitStep(c, t)
             => /\ last'.exc = "CmdError"
                   => /\ proc' = proc /\ temp' = temp
                      /\ handles' = handles /\ fs' = fs
                /\ (/\ RunExitedJoined(c)
                    /\ Realpath(temp[c]) = Realpath(t)
                    /\ ExpectedTempFiles(c) \subseteq Listdir(fs, t))
                   => last'.exc = ""
                /\ last'.exc = "" => proc[c] # 0 /\ proc'[c] = 0
                /\ proc[c] = 0 => last'.exc = "CmdError"]_vars

\* A commit was rejected for its temp root alone: the same run can still be
\* committed in its own temp root.
C29_Witness ==
    /\ last.op = "commit"
    /\ last.exc = "CmdError"
    /\ last.msg = "temp mismatch"
    /\ RunExitedJoined(last.cmd)
    /\ ExpectedTempFiles(last.cmd) \subseteq Listdir(fs, temp[last.cmd])

\* C30, as stated: the child of a consumer whose stdin slot holds a
\* descriptor is never launched with the host's own stdin: it reads the
\* stdout pipe of a child of that descriptor.
C30_ConsumerNeverReadsHostStdin ==
    \A p \in Pids :
       (child[p].st # "none" /\ Producer(child[p].owner) # 0)
          => (child[p].stdin = "pipe" /\ child[p].src # 0)

====
